---- MODULE Spec2Model ----
(***************************************************************************)
(* Model of the liquidity pool of src/src/main.rs (struct LpPool and its   *)
(* operations init, add_liquidity, remove_liquidity and swap).             *)
(*                                                                         *)
(* The pool stores u64 fixed-point integers but computes in f64.  The f64  *)
(* arithmetic is modelled bit-exactly for the value range of the model:    *)
(* a finite positive f64 is a record [m, e] standing for m * 2^e, where m  *)
(* is a natural number of at most 53 bits held as a little-endian sequence *)
(* of limbs, and every operation rounds its exact result to 53 bits,       *)
(* ties to even, as IEEE 754 does.  Exponents stay far inside the f64      *)
(* range, so neither subnormals nor overflow to infinity arise except for  *)
(* the division by zero, which is modelled by the value Inf.               *)
(***************************************************************************)
EXTENDS Integers, Sequences, FiniteSets, TLC

\* const SCALE: u64 = 1_000_000
SCALE == 1000000

------------------------------------------------------------------------------
(* Natural numbers of arbitrary size: little-endian sequences of limbs      *)
(* without leading zero limbs, so that equal numbers are equal sequences.   *)
(* Every u64 of the program is such a number.                               *)

LimbBase == 2 ^ 10

\* the number of bits of n, for 0 <= n < 2^21
BitLenInt(n) == Cardinality({k \in 0..20 : 2 ^ k <= n})

LimbBits == BitLenInt(LimbBase) - 1

RECURSIVE BigFromInt(_)
BigFromInt(n) ==
    IF n = 0 THEN << >> ELSE << n % LimbBase >> \o BigFromInt(n \div LimbBase)

Max(S) == CHOOSE c \in S : \A c2 \in S : c2 <= c

\* x without its leading zero limbs
TopLimb(x) == Max({0} \cup {i \in 1..Len(x) : x[i] # 0})
BigTrim(x) ==
    IF Len(x) = 0 THEN x
    ELSE IF x[Len(x)] # 0 THEN x
    ELSE SubSeq(x, 1, TopLimb(x))

BigIsZero(x) == Len(BigTrim(x)) = 0

RECURSIVE BigToInt(_)
BigToInt(x) ==
    IF Len(x) = 0 THEN 0 ELSE x[1] + LimbBase * BigToInt(Tail(x))

Limb(x, i) == IF i >= 1 /\ i <= Len(x) THEN x[i] ELSE 0

\* The operations below go limb by limb and carry the limbs they have
\* produced in acc: the next limb is the one at Len(acc) + 1 from the bottom
\* (additions, products) or from the top (quotients).

RECURSIVE BigAddFrom(_, _, _, _)
BigAddFrom(x, y, carry, acc) ==
    IF Len(acc) >= Len(x) /\ Len(acc) >= Len(y)
    THEN (IF carry = 0 THEN acc ELSE Append(acc, carry))
    ELSE BigAddFrom(x, y,
            (Limb(x, Len(acc) + 1) + Limb(y, Len(acc) + 1) + carry) \div LimbBase,
            Append(acc,
                (Limb(x, Len(acc) + 1) + Limb(y, Len(acc) + 1) + carry) % LimbBase))

BigAdd(x, y) ==
    IF Len(y) = 0 THEN x
    ELSE IF Len(x) = 0 THEN y
    ELSE BigAddFrom(x, y, 0, << >>)

\* x - y, for x >= y
RECURSIVE BigSubFrom(_, _, _, _)
BigSubFrom(x, y, borrow, acc) ==
    IF Len(acc) >= Len(x) THEN acc
    ELSE BigSubFrom(x, y,
            IF Limb(x, Len(acc) + 1) - Limb(y, Len(acc) + 1) - borrow < 0
            THEN 1 ELSE 0,
            Append(acc,
                (Limb(x, Len(acc) + 1) - Limb(y, Len(acc) + 1) - borrow + LimbBase)
                % LimbBase))

BigSub(x, y) ==
    IF Len(y) = 0 THEN x ELSE BigTrim(BigSubFrom(x, y, 0, << >>))

\* x * k for a small k (k < 2^20)
RECURSIVE BigMulSmallFrom(_, _, _, _)
BigMulSmallFrom(x, k, carry, acc) ==
    IF Len(acc) >= Len(x) THEN acc \o BigFromInt(carry)
    ELSE BigMulSmallFrom(x, k,
            (x[Len(acc) + 1] * k + carry) \div LimbBase,
            Append(acc, (x[Len(acc) + 1] * k + carry) % LimbBase))

BigMulSmall(x, k) ==
    IF k = 0 \/ Len(x) = 0 THEN << >>
    ELSE BigTrim(BigMulSmallFrom(x, k, 0, << >>))

BigShiftLimbs(x, n) == [i \in 1..n |-> 0] \o x

\* x * y by columns: limb j of the product collects the products x[i] * y[k]
\* with i + k = j + 1, here for i in lo..hi
RECURSIVE ColSum(_, _, _, _, _)
ColSum(x, y, j, lo, hi) ==
    IF lo > hi THEN 0
    ELSE IF lo = hi THEN x[lo] * y[j - lo + 1]
    ELSE ColSum(x, y, j, lo, (lo + hi) \div 2)
         + ColSum(x, y, j, (lo + hi) \div 2 + 1, hi)

Col(x, y, j) ==
    ColSum(x, y, j, IF j > Len(y) THEN j - Len(y) + 1 ELSE 1,
                    IF j > Len(x) THEN Len(x) ELSE j)

RECURSIVE BigMulFrom(_, _, _, _)
BigMulFrom(x, y, carry, acc) ==
    IF Len(acc) >= Len(x) + Len(y) THEN acc
    ELSE BigMulFrom(x, y,
            (Col(x, y, Len(acc) + 1) + carry) \div LimbBase,
            Append(acc, (Col(x, y, Len(acc) + 1) + carry) % LimbBase))

BigMul(x, y) ==
    IF Len(x) = 0 \/ Len(y) = 0 THEN << >>
    ELSE BigTrim(BigMulFrom(x, y, 0, << >>))

TrimQuot(res) == [q |-> BigTrim(res.q), r |-> res.r]

\* floor(x / d) and x mod d for a small d (0 < d <= 2^20), from the top limb
\* down; the remainder is an integer
RECURSIVE BigDivSmallFrom(_, _, _, _)
BigDivSmallFrom(x, d, rem, acc) ==
    IF Len(acc) >= Len(x) THEN [q |-> acc, r |-> rem]
    ELSE BigDivSmallFrom(x, d,
            (rem * LimbBase + x[Len(x) - Len(acc)]) % d,
            << (rem * LimbBase + x[Len(x) - Len(acc)]) \div d >> \o acc)

BigDivSmall(x, d) == TrimQuot(BigDivSmallFrom(x, d, 0, << >>))

BitLenTrimmed(t) ==
    IF Len(t) = 0 THEN 0 ELSE LimbBits * (Len(t) - 1) + BitLenInt(t[Len(t)])
BigBitLen(x) == BitLenTrimmed(BigTrim(x))

\* x * 2^b for b < LimbBits: every limb gives its high bits to the next one
ShlLimbs(x, b) ==
    [i \in 1..(Len(x) + 1) |->
        (Limb(x, i) % 2 ^ (LimbBits - b)) * 2 ^ b
        + Limb(x, i - 1) \div 2 ^ (LimbBits - b)]

BigShl(x, s) ==
    BigTrim(BigShiftLimbs(ShlLimbs(x, s % LimbBits), s \div LimbBits))

\* floor(x / 2^b) for b < LimbBits, x without its lowest a limbs
ShrLimbs(x, a, b) ==
    [i \in 1..(Len(x) - a) |->
        x[i + a] \div 2 ^ b + (Limb(x, i + a + 1) % 2 ^ b) * 2 ^ (LimbBits - b)]

\* floor(x / 2^s)
BigShr(x, s) ==
    IF s \div LimbBits >= Len(x) THEN << >>
    ELSE BigTrim(ShrLimbs(x, s \div LimbBits, s % LimbBits))

BigIsOdd(x) == Len(x) > 0 /\ x[1] % 2 = 1

\* x < y: decided by the highest limb in which they differ
Differ(x, y) == {i \in 1..Len(x) : x[i] # y[i]}
LessAt(x, y, D) == D # {} /\ x[Max(D)] < y[Max(D)]

BigLess(x, y) ==
    IF Len(x) # Len(y) THEN Len(x) < Len(y) ELSE LessAt(x, y, Differ(x, y))

BigLeq(x, y) == ~BigLess(y, x)

\* floor(n / d) and n mod d for a d of at least two limbs: long division from
\* the top down.  A quotient limb is within [est - 2, est + 1] of the estimate
\* est taken from the leading limbs of the running remainder cur and of d.
EstDigit(cur, d) ==
    ((Limb(cur, Len(d) + 1) * LimbBase + Limb(cur, Len(d))) * LimbBase
       + Limb(cur, Len(d) - 1))
    \div (d[Len(d)] * LimbBase + d[Len(d) - 1])

QuotDigit(cur, d, est) ==
    Max({c \in (est - 2)..(est + 1) :
            c >= 0 /\ c < LimbBase /\ BigLeq(BigMulSmall(d, c), cur)})

\* the running remainder with the next limb of n brought down
BringDown(n, d, rem, acc) ==
    BigTrim(<< n[Len(n) - Len(d) + 1 - Len(acc)] >> \o rem)

RECURSIVE BigDivModFrom(_, _, _, _)
DivEmit(n, d, acc, cur, digit) ==
    BigDivModFrom(n, d, BigSub(cur, BigMulSmall(d, digit)), << digit >> \o acc)
DivStep(n, d, acc, cur) ==
    IF BigLess(cur, d) THEN BigDivModFrom(n, d, cur, << 0 >> \o acc)
    ELSE DivEmit(n, d, acc, cur, QuotDigit(cur, d, EstDigit(cur, d)))
BigDivModFrom(n, d, rem, acc) ==
    IF Len(acc) >= Len(n) - Len(d) + 1 THEN [q |-> acc, r |-> rem]
    ELSE DivStep(n, d, acc, BringDown(n, d, rem, acc))

\* the leading Len(d) - 1 limbs of n are less than d: the division starts below
BigDivMod(n, d) ==
    IF Len(n) < Len(d) THEN [q |-> << >>, r |-> n]
    ELSE TrimQuot(BigDivModFrom(n, d, SubSeq(n, Len(n) - Len(d) + 2, Len(n)),
                                << >>))

------------------------------------------------------------------------------
(* u64 and f64 arithmetic.                                                  *)

\* u64 has 64 bits
U64Bits == 64
U64(n) == BigFromInt(n)
U64Modulus == BigShl(<< 1 >>, U64Bits)
U64Max == BigSub(U64Modulus, << 1 >>)

\* x + y and x - y in u64: whether the exact result leaves the type, and the
\* result modulo 2^64 that a build without overflow checks stores
AddOverflows(x, y) == BigBitLen(BigAdd(x, y)) > U64Bits
WrappingAdd(x, y) ==
    IF AddOverflows(x, y) THEN BigSub(BigAdd(x, y), U64Modulus) ELSE BigAdd(x, y)
SubOverflows(x, y) == BigLess(x, y)
WrappingSub(x, y) ==
    IF SubOverflows(x, y) THEN BigSub(BigAdd(x, U64Modulus), y) ELSE BigSub(x, y)

\* f64 has a 53-bit significand
MantBits == 53

Inf == [inf |-> TRUE]
IsInf(x) == "inf" \in DOMAIN x

\* the f64 nearest to m * 2^e (plus a non-zero amount below the last bit of m
\* when sticky holds), ties to even.  m has s bits too many; q2 is m without
\* its last s - 1 bits, so that the last bit of q2 is the guard bit.
RoundUp(q, e, up) == [m |-> IF up THEN BigAdd(q, << 1 >>) ELSE q, e |-> e]
RoundGuard(m, e, sticky, s, q2) ==
    RoundUp(BigShr(q2, 1), e + s,
            /\ BigIsOdd(q2)
            /\ (sticky \/ BigShl(q2, s - 1) # m \/ BigIsOdd(BigShr(q2, 1))))
RoundBits(m, e, sticky, s) ==
    IF s <= 0 THEN [m |-> m, e |-> e]
    ELSE RoundGuard(m, e, sticky, s, BigShr(m, s - 1))
RoundTrimmed(m, e, sticky) == RoundBits(m, e, sticky, BitLenTrimmed(m) - MantBits)
F64Round(m, e, sticky) ==
    IF BigIsZero(m) THEN [m |-> << >>, e |-> e]
    ELSE RoundTrimmed(BigTrim(m), e, sticky)

\* u64 as f64: exact below 2^53, rounded to nearest above
F64FromU64(n) == F64Round(n, 0, FALSE)

F64Mul(x, y) ==
    IF IsInf(x) \/ IsInf(y) THEN Inf
    ELSE F64Round(BigMul(x.m, y.m), x.e + y.e, FALSE)

\* x / y for a finite y.  The code divides by zero only a positive x, which
\* gives +inf.  The quotient is taken with enough bits below the 53rd for the
\* rounding; a divisor below 2^20 is divided by limb by limb.
QuotShift(have, want) == IF want > have THEN want - have ELSE 0
RoundQuotSmall(res, e) == F64Round(res.q, e, res.r # 0)
RoundQuot(res, e) == F64Round(res.q, e, ~BigIsZero(res.r))
DivShifted(x, y, k) ==
    IF BigBitLen(y.m) <= 2 * LimbBits
    THEN RoundQuotSmall(BigDivSmall(BigShl(x.m, k), BigToInt(y.m)), x.e - y.e - k)
    ELSE RoundQuot(BigDivMod(BigShl(x.m, k), y.m), x.e - y.e - k)
F64Div(x, y) ==
    IF IsInf(x) THEN Inf
    ELSE IF BigIsZero(y.m) THEN Inf
    ELSE DivShifted(x, y, QuotShift(BigBitLen(x.m), 3 + MantBits + BigBitLen(y.m)))

\* 1.0 - y for 0 <= y <= 1
F64OneMinus(y) ==
    IF BigIsZero(y.m) THEN F64FromU64(<< 1 >>)
    ELSE F64Round(BigSub(BigShl(<< 1 >>, 0 - y.e), y.m), y.e, FALSE)

\* floor(x) of a finite x >= 0
F64Floor(x) ==
    IF x.e >= 0 THEN BigShl(x.m, x.e) ELSE BigShr(x.m, 0 - x.e)

\* f64::round then as u64: nearest integer, halves away from zero
F64RoundToU64(x) ==
    IF x.e >= 0 THEN BigShl(x.m, x.e)
    ELSE BigShr(BigAdd(BigShr(x.m, 0 - x.e - 1), << 1 >>), 1)

\* x as u64: truncation toward zero, saturating at u64::MAX
Saturate(n) == IF BigBitLen(n) > U64Bits THEN U64Max ELSE n
F64ToU64(x) == IF IsInf(x) THEN U64Max ELSE Saturate(F64Floor(x))

------------------------------------------------------------------------------
(* The computations of the three operations.                                *)

\* SCALE as f64
ScaleF64 == F64FromU64(BigFromInt(SCALE))

\* (x * SCALE as f64) as u64
ToScaled(x) == F64ToU64(F64Mul(x, ScaleF64))

\* the ratio of the proportional mint inverted
MintF64Inverted(amount, lp, tok) ==
    IF ~BigIsZero(lp)
    THEN F64Div(F64Div(F64Mul(F64FromU64(amount), F64FromU64(tok)), F64FromU64(lp)),
                ScaleF64)
    ELSE F64Div(F64FromU64(amount), ScaleF64)
\* lp_tokens_to_mint_f64 of add_liquidity
MintF64(amount, lp, tok) ==
    IF ~BigIsZero(lp)
    THEN F64Div(F64Div(F64Mul(F64FromU64(amount), F64FromU64(lp)), F64FromU64(tok)),
                ScaleF64)
    ELSE F64Div(F64FromU64(amount), ScaleF64)

\* lp_tokens_share of remove_liquidity
ShareF64(lpAmount, lp) == F64Div(F64FromU64(lpAmount), F64FromU64(lp))

\* token_amount_to_return_f64 and staked_token_amount_to_return_f64
ReturnF64(reserve, share) == F64Div(F64Mul(F64FromU64(reserve), share), ScaleF64)

\* Percentage::to_f64
PercentageToF64(p) == F64Div(F64FromU64(p), ScaleF64)

\* tokens_to_receive_f64 of swap, for the sampled fee_rate
ReceiveF64(staked, price, feeRate) ==
    LET staked_amount_f64 == F64Div(F64FromU64(staked), ScaleF64)
        price_f64         == F64Div(F64FromU64(price), ScaleF64)
    IN  F64Mul(F64Mul(staked_amount_f64, price_f64),
               F64OneMinus(F64Div(feeRate, ScaleF64)))

\* tokens_to_receive_scaled of swap
ReceiveScaled(tokens_to_receive_f64) ==
    F64RoundToU64(F64Mul(tokens_to_receive_f64, ScaleF64))

------------------------------------------------------------------------------
(* Bounds of the model and the inputs it draws.                             *)

\* number of calls made on one pool
MaxOps == 3
\* number of calls made on each of two pools that are compared
TwinOps == 2

\* the arguments of init: price, min_fee, max_fee, liquidity_target
InitArgs    == {<< 400000, 90000, 900000, 90000000 >>,
                << 1500000, 90000, 900000, 90000000 >>,
                << 1500000, 900000, 90000, 90000000 >>}
\* an amount above 2^53, where u64 as f64 rounds
Large       == BigAdd(BigShl(<< 1 >>, MantBits), U64(3))
\* a reserve between the payouts of a swap of 10 tokens at the two fee bounds
Band        == U64(14999990)
AddAmounts  == {U64(0), U64(150), U64(249), Band, Large}
SwapAmounts == {U64(0), U64(1), U64(100), U64(10 * SCALE)}

------------------------------------------------------------------------------
(* The pool.                                                                *)

VARIABLES
    price,            \* LpPool.price
    token_amount,     \* LpPool.token_amount      (BaseReserve)
    st_token_amount,  \* LpPool.st_token_amount   (StakedReserve)
    lp_token_amount,  \* LpPool.lp_token_amount   (LpSupply)
    liquidity_target, \* LpPool.liquidity_target
    min_fee,          \* LpPool.min_fee
    max_fee,          \* LpPool.max_fee
    wrapping,         \* TRUE once an integer overflow has wrapped instead of
                      \* panicking: the build has overflow checks off
    fault,            \* "none", or the panic that ended the process
    last,             \* the last call: its input, its result, the pool before it
    prev,             \* the call before the last one
    nOps,             \* number of calls made
    mode,             \* what drives the pool: "calls" any caller, "record" a
                      \* caller whose calls are written down, "replay" the
                      \* calls written down, "main" the calls of fn main
    script,           \* the calls written down, each with what it left
    cursor            \* the place in script of the last call replayed

pool == << price, token_amount, st_token_amount, lp_token_amount,
           liquidity_target, min_fee, max_fee >>
vars == << price, token_amount, st_token_amount, lp_token_amount,
           liquidity_target, min_fee, max_fee, wrapping, fault,
           last, prev, nOps, mode, script, cursor >>

\* what a call leaves behind for the properties to look at: op and arg are the
\* call, res its result ("panic" when it did not return), before the pool it
\* found, fee the sampled fee rate (as a Percentage), minted / outToken /
\* outStaked / payout the fixed-point amounts the call computed, and arith the
\* integer overflow it ran into, if any
Call(op, arg, res, fee, minted, outToken, outStaked, payout, arith) ==
    [op |-> op, arg |-> arg, res |-> res, before |-> pool, fee |-> fee,
     minted |-> minted, outToken |-> outToken, outStaked |-> outStaked,
     payout |-> payout, arith |-> arith]

NoCall == [op |-> "init", arg |-> U64(0), res |-> "Ok", before |-> << >>,
           fee |-> U64(0), minted |-> U64(0), outToken |-> U64(0),
           outStaked |-> U64(0), payout |-> U64(0), arith |-> "none"]

\* the last call and the reserves it left, as a caller sees them
Entry ==
    [op |-> last.op, arg |-> last.arg, fee |-> last.fee, res |-> last.res,
     minted |-> last.minted, outToken |-> last.outToken,
     outStaked |-> last.outStaked, payout |-> last.payout, fault |-> fault,
     token_amount |-> token_amount, st_token_amount |-> st_token_amount,
     lp_token_amount |-> lp_token_amount]

\* LpPool::init: no validation, empty reserves
Created(a) ==
    /\ price = a[1]
    /\ min_fee = a[2]
    /\ max_fee = a[3]
    /\ liquidity_target = a[4]
    /\ token_amount = U64(0)
    /\ st_token_amount = U64(0)
    /\ lp_token_amount = U64(0)
    /\ wrapping = FALSE
    /\ fault = "none"
    /\ last = NoCall
    /\ prev = NoCall
    /\ nOps = 0

\* a pool on which any calls are made
Init ==
    /\ \E a \in InitArgs : Created(<< U64(a[1]), U64(a[2]), U64(a[3]), U64(a[4]) >>)
    /\ mode = "calls"
    /\ script = << >>
    /\ cursor = 0

\* the number of calls made on one pool
OpsLimit ==
    IF mode = "calls" THEN MaxOps
    ELSE IF mode = "record" THEN TwinOps
    ELSE Len(script)

\* a call is made: the process is alive
Step == /\ fault = "none"
        /\ nOps < OpsLimit
        /\ nOps' = nOps + 1
        /\ prev' = last
        /\ mode' = mode
        /\ script' = IF mode = "record" THEN Append(script, Entry) ELSE script
        /\ cursor' = IF mode \in {"replay", "main"} THEN cursor + 1 ELSE cursor

\* the check of add_liquidity and swap left out
InvalidAmountUnchecked(amount) == FALSE
\* add_liquidity, line 89, and swap, line 136: `amount.0 <= 0`
InvalidAmount(amount) == BigIsZero(amount)

\* `>=` for `>`: the whole supply cannot be withdrawn
RemoveRejectedAll(lpAmount, lp) == BigIsZero(lpAmount) \/ BigLeq(lp, lpAmount)
\* remove_liquidity, line 113
RemoveRejected(lpAmount, lp) == BigIsZero(lpAmount) \/ BigLess(lp, lpAmount)

\* `>=` for `>`: a payout of the whole reserve is refused
InsufficientAtReserve(tokens_to_receive_scaled, tok) ==
    BigLeq(tok, tokens_to_receive_scaled)
\* a swap that would leave the reserve below the liquidity target is refused
InsufficientUnderTarget(tokens_to_receive_scaled, tok) ==
    \/ BigLess(tok, tokens_to_receive_scaled)
    \/ BigLess(BigSub(tok, tokens_to_receive_scaled), liquidity_target)
\* swap, line 151
Insufficient(tokens_to_receive_scaled, tok) == BigLess(tok, tokens_to_receive_scaled)

\* an error returned after the staked amount was credited
FailsCredited(op, arg, res, fee, payout) ==
    /\ last' = Call(op, arg, res, fee, U64(0), U64(0), U64(0), payout, "none")
    /\ st_token_amount' = BigAdd(st_token_amount, arg)
    /\ UNCHANGED << price, token_amount, lp_token_amount, liquidity_target,
                    min_fee, max_fee, wrapping, fault >>
\* a call that returns Err(res): no field is assigned
Fails(op, arg, res, fee, payout) ==
    /\ last' = Call(op, arg, res, fee, U64(0), U64(0), U64(0), payout, "none")
    /\ UNCHANGED << pool, wrapping, fault >>

\* LpPool::add_liquidity, lines 102-105: the two `+=`.  Where one overflows,
\* the first that does panics if the build checks overflow, else both wrap.
AddCommit(amount, minted, tokOv, lpOv) ==
    /\ UNCHANGED << price, st_token_amount, liquidity_target, min_fee, max_fee >>
    /\ IF ~tokOv /\ ~lpOv
       THEN /\ token_amount' = BigAdd(token_amount, amount)
            /\ lp_token_amount' = BigAdd(lp_token_amount, minted)
            /\ last' = Call("add_liquidity", amount, "Ok", U64(0),
                            minted, U64(0), U64(0), U64(0), "none")
            /\ UNCHANGED << wrapping, fault >>
       ELSE \/ /\ ~wrapping
               /\ fault' = "overflow"
               /\ token_amount' =
                     IF tokOv THEN token_amount ELSE BigAdd(token_amount, amount)
               /\ UNCHANGED << lp_token_amount, wrapping >>
               /\ last' = Call("add_liquidity", amount, "panic", U64(0),
                               minted, U64(0), U64(0), U64(0), "overflow")
            \/ /\ wrapping' = TRUE
               /\ token_amount' = WrappingAdd(token_amount, amount)
               /\ lp_token_amount' = WrappingAdd(lp_token_amount, minted)
               /\ last' = Call("add_liquidity", amount, "Ok", U64(0),
                               minted, U64(0), U64(0), U64(0), "overflow")
               /\ UNCHANGED fault

\* minted is (lp_tokens_to_mint_f64 * SCALE as f64) as u64
AddMint(amount, minted) ==
    AddCommit(amount, minted, AddOverflows(token_amount, amount),
              AddOverflows(lp_token_amount, minted))

\* LpPool::add_liquidity
add_liquidity(amount) ==
    /\ Step
    /\ IF InvalidAmount(amount)
       THEN Fails("add_liquidity", amount, "InvalidInput", U64(0), U64(0))
       ELSE \E minted \in {ToScaled(MintF64(amount, lp_token_amount, token_amount))} :
               AddMint(amount, minted)

\* LpPool::remove_liquidity, lines 124-131: the three `-=`.  Where one
\* underflows, the first that does panics if the build checks overflow, else
\* it wraps.
RemoveCommit(lpAmount, outToken, outStaked, tokOv, stOv) ==
    /\ UNCHANGED << price, liquidity_target, min_fee, max_fee >>
    /\ IF ~tokOv /\ ~stOv
       THEN /\ token_amount' = BigSub(token_amount, outToken)
            /\ st_token_amount' = BigSub(st_token_amount, outStaked)
            /\ lp_token_amount' = BigSub(lp_token_amount, lpAmount)
            /\ last' = Call("remove_liquidity", lpAmount, "Ok", U64(0),
                            U64(0), outToken, outStaked, U64(0), "none")
            /\ UNCHANGED << wrapping, fault >>
       ELSE \/ /\ ~wrapping
               /\ fault' = "underflow"
               /\ token_amount' =
                     IF tokOv THEN token_amount ELSE BigSub(token_amount, outToken)
               /\ UNCHANGED << st_token_amount, lp_token_amount, wrapping >>
               /\ last' = Call("remove_liquidity", lpAmount, "panic", U64(0),
                               U64(0), outToken, outStaked, U64(0), "underflow")
            \/ /\ wrapping' = TRUE
               /\ token_amount' = WrappingSub(token_amount, outToken)
               /\ st_token_amount' = WrappingSub(st_token_amount, outStaked)
               /\ lp_token_amount' = BigSub(lp_token_amount, lpAmount)
               /\ last' = Call("remove_liquidity", lpAmount, "Ok", U64(0),
                               U64(0), outToken, outStaked, U64(0), "underflow")
               /\ UNCHANGED fault

\* outToken and outStaked are the two amounts `(... * SCALE as f64) as u64`
RemoveOut(lpAmount, outToken, outStaked) ==
    RemoveCommit(lpAmount, outToken, outStaked,
                 SubOverflows(token_amount, outToken),
                 SubOverflows(st_token_amount, outStaked))

RemoveShare(lpAmount, lp_tokens_share) ==
    \E outToken \in {ToScaled(ReturnF64(token_amount, lp_tokens_share))} :
        \E outStaked \in {ToScaled(ReturnF64(st_token_amount, lp_tokens_share))} :
            RemoveOut(lpAmount, outToken, outStaked)

\* LpPool::remove_liquidity
remove_liquidity(lpAmount) ==
    /\ Step
    /\ IF RemoveRejected(lpAmount, lp_token_amount)
       THEN Fails("remove_liquidity", lpAmount, "InsufficientLiquidity",
                  U64(0), U64(0))
       ELSE \E lp_tokens_share \in {ShareF64(lpAmount, lp_token_amount)} :
               RemoveShare(lpAmount, lp_tokens_share)

\* the sampled fee rate stored as the pool's minimum fee
SwapCommitStoresFee(staked, fee, tokens_to_receive_scaled, stOv) ==
    IF Insufficient(tokens_to_receive_scaled, token_amount)
    THEN Fails("swap", staked, "InsufficientLiquidity", fee, tokens_to_receive_scaled)
    ELSE /\ token_amount' = BigSub(token_amount, tokens_to_receive_scaled)
         /\ st_token_amount' = WrappingAdd(st_token_amount, staked)
         /\ min_fee' = fee
         /\ last' = Call("swap", staked, "Ok", fee, U64(0), U64(0), U64(0),
                         tokens_to_receive_scaled, "none")
         /\ UNCHANGED << price, lp_token_amount, liquidity_target, max_fee,
                         wrapping, fault >>
\* LpPool::swap, lines 150-160: the liquidity check and the state update
SwapCommit(staked, fee, tokens_to_receive_scaled, stOv) ==
    IF Insufficient(tokens_to_receive_scaled, token_amount)
    THEN Fails("swap", staked, "InsufficientLiquidity", fee, tokens_to_receive_scaled)
    ELSE /\ token_amount' = BigSub(token_amount, tokens_to_receive_scaled)
         /\ UNCHANGED << price, lp_token_amount, liquidity_target, min_fee, max_fee >>
         /\ IF ~stOv
            THEN /\ st_token_amount' = BigAdd(st_token_amount, staked)
                 /\ last' = Call("swap", staked, "Ok", fee, U64(0), U64(0), U64(0),
                                 tokens_to_receive_scaled, "none")
                 /\ UNCHANGED << wrapping, fault >>
            ELSE \/ /\ ~wrapping
                    /\ fault' = "overflow"
                    /\ UNCHANGED << st_token_amount, wrapping >>
                    /\ last' = Call("swap", staked, "panic", fee, U64(0), U64(0),
                                    U64(0), tokens_to_receive_scaled, "overflow")
                 \/ /\ wrapping' = TRUE
                    /\ st_token_amount' = WrappingAdd(st_token_amount, staked)
                    /\ last' = Call("swap", staked, "Ok", fee, U64(0), U64(0),
                                    U64(0), tokens_to_receive_scaled, "overflow")
                    /\ UNCHANGED fault

\* the payout of a swap of staked at the pool's price for the fee rate fee
Payout(staked, fee) ==
    ReceiveScaled(ReceiveF64(staked, price, PercentageToF64(fee)))

\* LpPool::swap; fee is the Percentage whose to_f64 the generator returns
swap(staked, fee) ==
    /\ Step
    /\ IF InvalidAmount(staked)
       THEN Fails("swap", staked, "InvalidInput", U64(0), U64(0))
       ELSE IF BigLess(max_fee, min_fee)
       THEN \* gen_range panics on an empty range
            /\ fault' = "empty_range"
            /\ last' = Call("swap", staked, "panic", U64(0), U64(0), U64(0),
                            U64(0), U64(0), "none")
            /\ UNCHANGED << pool, wrapping >>
       ELSE \E tokens_to_receive_scaled \in {Payout(staked, fee)} :
               SwapCommit(staked, fee, tokens_to_receive_scaled,
                          AddOverflows(st_token_amount, staked))

\* the LP amounts a caller may ask to burn
RemoveAmounts ==
    {U64(0), U64(1), lp_token_amount, WrappingAdd(lp_token_amount, U64(1)),
     last.minted}

\* the fee rates the generator may return: the ends of [min_fee, max_fee]
FeeSamples == {min_fee, max_fee}

AddLiquidity    == \E amount \in AddAmounts : add_liquidity(amount)
RemoveLiquidity == \E lpAmount \in RemoveAmounts : remove_liquidity(lpAmount)
Swap            == \E staked \in SwapAmounts : \E fee \in FeeSamples : swap(staked, fee)

Next == AddLiquidity \/ RemoveLiquidity \/ Swap

Spec == Init /\ [][Next]_vars

------------------------------------------------------------------------------
(* Two pools that differ in the liquidity target only.  The calls made on   *)
(* the first are written down with their results; a second pool is then     *)
(* created and the same calls, with the same sampled fee rates, are made on *)
(* it.                                                                      *)

\* the liquidity target of the second pool
TwinTargets == {U64(0)}

InitTwin ==
    /\ \E a \in InitArgs : Created(<< U64(a[1]), U64(a[2]), U64(a[3]), U64(a[4]) >>)
    /\ mode = "record"
    /\ script = << >>
    /\ cursor = 0

\* any call on the first pool
RecordedCall == mode = "record" /\ Next

\* LpPool::init of the second pool, in the same build, once the first has
\* had its calls
Twin ==
    /\ mode = "record"
    /\ nOps = TwinOps \/ fault # "none"
    /\ mode' = "replay"
    /\ script' = Append(script, Entry)
    /\ cursor' = 1
    /\ \E target \in TwinTargets \ {liquidity_target} : liquidity_target' = target
    /\ token_amount' = U64(0)
    /\ st_token_amount' = U64(0)
    /\ lp_token_amount' = U64(0)
    /\ fault' = "none"
    /\ last' = NoCall
    /\ prev' = NoCall
    /\ nOps' = 0
    /\ UNCHANGED << price, min_fee, max_fee, wrapping >>

\* the call c of a script, with a fee rate of fees
Scripted(c, fees) ==
    \/ c.op = "add_liquidity" /\ add_liquidity(c.arg)
    \/ c.op = "remove_liquidity" /\ remove_liquidity(c.arg)
    \/ c.op = "swap" /\ \E fee \in fees : swap(c.arg, fee)

\* the next call of the first pool made on the second
TwinCall ==
    /\ mode = "replay"
    /\ cursor < Len(script)
    /\ Scripted(script[cursor + 1], {script[cursor + 1].fee})

NextTwin == RecordedCall \/ Twin \/ TwinCall

TwinSpec == InitTwin /\ [][NextTwin]_vars
------------------------------------------------------------------------------
(* fn main: the calls it makes, with any fee rates.                         *)

\* From<f64>: `(value * SCALE as f64) as u64` for the literal num / den
FromF64(num, den) ==
    ToScaled(F64Div(F64FromU64(U64(num)), F64FromU64(U64(den))))

\* main, lines 276-279: Price::from(1.5), min_fee, max_fee, TokenAmount::from(90.0)
MainArgs == << FromF64(15, 10), FromF64(9, 10), FromF64(9, 1), FromF64(90, 1) >>

\* main, lines 282-303
MainScript ==
    << [op |-> "init"],
       [op |-> "add_liquidity", arg |-> FromF64(100, 1)],
       [op |-> "swap", arg |-> FromF64(6, 1)],
       [op |-> "add_liquidity", arg |-> FromF64(10, 1)],
       [op |-> "swap", arg |-> FromF64(30, 1)],
       [op |-> "remove_liquidity", arg |-> FromF64(1099991, 10000)] >>

\* the fee rates sampled: min_fee, max_fee and MainFeeSteps - 1 rates evenly
\* spaced between them
MainFeeSteps == 9
MainFee(k) ==
    BigAdd(min_fee,
           BigDivSmall(BigMulSmall(BigSub(max_fee, min_fee), k), MainFeeSteps).q)
MainFees == {MainFee(k) : k \in 0 .. MainFeeSteps}

InitMain ==
    /\ Created(MainArgs)
    /\ mode = "main"
    /\ script = MainScript
    /\ cursor = 1

\* the next call of main
MainCall ==
    /\ mode = "main"
    /\ cursor < Len(script)
    /\ Scripted(script[cursor + 1], MainFees)

MainSpec == InitMain /\ [][MainCall]_vars
------------------------------------------------------------------------------
(* Properties.                                                              *)

\* the reserves a call found
BeforeToken(c)  == c.before[2]
BeforeStaked(c) == c.before[3]
BeforeLp(c)     == c.before[4]

Errors == {"InvalidInput", "InsufficientLiquidity"}

\* a call with a positive argument
Called(c, op) == c.op = op /\ ~BigIsZero(c.arg)

\* floor(n / d) for d > 0, and |x - y|
BigDiv(n, d) ==
    IF Len(d) <= 2 THEN BigDivSmall(n, BigToInt(d)).q ELSE BigDivMod(n, d).q
Dist(x, y) == IF BigLess(x, y) THEN BigSub(y, x) ELSE BigSub(x, y)

\* C1: in every reachable state LpSupply is zero if and only if BaseReserve and
\* StakedReserve are both zero; in particular no swap on a pool with zero LP
\* supply leaves StakedReserve > 0.
C1_SupplyZeroIffEmpty ==
    BigIsZero(lp_token_amount)
        <=> (BigIsZero(token_amount) /\ BigIsZero(st_token_amount))

\* C2: a step in which add_liquidity, remove_liquidity or swap returns an error
\* leaves every field of the pool as it was.
C2_FailureAtomic == [][last'.res \in Errors => pool' = pool]_vars

\* a swap was refused for lack of liquidity on a pool holding base tokens
C2_Witness ==
    /\ last.op = "swap"
    /\ last.res = "InsufficientLiquidity"
    /\ ~BigIsZero(token_amount)

\* the mint the specification states: amount at bootstrap, else
\* amount * LpSupply / BaseReserve truncated
ExactMint(amount, lp, tok) ==
    IF BigIsZero(lp) THEN amount ELSE BigDiv(BigMul(amount, lp), tok)

\* C3: add_liquidity of a positive amount succeeds in every reachable state,
\* without a division by a zero BaseReserve or an integer overflow, increases
\* BaseReserve by exactly amount and LpSupply by exactly the stated mint.
C3_AddExact ==
    Called(last, "add_liquidity") =>
        /\ last.res = "Ok"
        /\ last.arith = "none"
        /\ BigIsZero(BeforeLp(last)) \/ ~BigIsZero(BeforeToken(last))
        /\ token_amount = BigAdd(BeforeToken(last), last.arg)
        /\ lp_token_amount =
              BigAdd(BeforeLp(last),
                     ExactMint(last.arg, BeforeLp(last), BeforeToken(last)))

\* out is within one unit of reserve * lpAmount / lp
WithinOne(out, reserve, lpAmount, lp) ==
    BigLeq(Dist(BigMul(out, lp), BigMul(reserve, lpAmount)), lp)

\* C4: remove_liquidity of 0 < lpAmount <= LpSupply succeeds, decreases LpSupply
\* by exactly lpAmount and each reserve by its share lpAmount / LpSupply, within
\* one unit, and leaves price, fee bounds and liquidity target unchanged.
C4_RemoveProportional ==
    (Called(last, "remove_liquidity") /\ BigLeq(last.arg, BeforeLp(last))) =>
        /\ last.res = "Ok"
        /\ last.arith = "none"
        /\ lp_token_amount = BigSub(BeforeLp(last), last.arg)
        /\ token_amount = BigSub(BeforeToken(last), last.outToken)
        /\ st_token_amount = BigSub(BeforeStaked(last), last.outStaked)
        /\ WithinOne(last.outToken, BeforeToken(last), last.arg, BeforeLp(last))
        /\ WithinOne(last.outStaked, BeforeStaked(last), last.arg, BeforeLp(last))
        /\ << price, liquidity_target, min_fee, max_fee >>
              = << last.before[1], last.before[5], last.before[6], last.before[7] >>

\* staked * price * (SCALE - fee), the payout for the fee rate fee / SCALE, in
\* units of 1 / SCALE^2
NetOfFee(staked, fee) ==
    BigMul(BigMul(staked, price), BigSub(U64(SCALE), fee))
ScaleSquared == BigMul(U64(SCALE), U64(SCALE))
PaidWithinFees(paid, staked) ==
    /\ BigLeq(NetOfFee(staked, max_fee), BigMul(BigAdd(paid, U64(1)), ScaleSquared))
    /\ BigLeq(BigMul(paid, ScaleSquared), BigAdd(NetOfFee(staked, min_fee), ScaleSquared))

\* C5: the base amount a successful swap pays out is stakedAmount * price *
\* (1 - f), within one unit, for a fee rate f between min_fee and max_fee read
\* as fractions of the scale.
C5_FeeWithinBounds ==
    (last.op = "swap" /\ last.res = "Ok") =>
        PaidWithinFees(BigSub(BeforeToken(last), token_amount), last.arg)

\* C6: add_liquidity(A) with A > 0 succeeds, and remove_liquidity of the LP
\* amount it minted, called next, succeeds, takes out of BaseReserve A or A - 1
\* units, leaves LpSupply as it was before the deposit, and takes no staked
\* tokens if StakedReserve was zero.
C6_RoundTrip ==
    /\ Called(last, "add_liquidity") => last.res = "Ok"
    /\ (/\ Called(prev, "add_liquidity")
        /\ prev.res = "Ok"
        /\ last.op = "remove_liquidity"
        /\ last.arg = prev.minted) =>
           /\ last.res = "Ok"
           /\ BigLeq(last.outToken, prev.arg)
           /\ BigLeq(prev.arg, BigAdd(last.outToken, U64(1)))
           /\ lp_token_amount = BeforeLp(prev)
           /\ BigIsZero(BeforeStaked(prev)) => BigIsZero(last.outStaked)

\* C7: remove_liquidity returns InsufficientLiquidity exactly when lpAmount is
\* zero or exceeds LpSupply, and never returns InvalidInput.
C7_RemoveRejection ==
    last.op = "remove_liquidity" =>
        /\ last.res = "InsufficientLiquidity"
              <=> (BigIsZero(last.arg) \/ BigLess(BeforeLp(last), last.arg))
        /\ last.res # "InvalidInput"

\* more LP than the supply of a pool with LP outstanding was asked for
C7_Witness ==
    /\ last.op = "remove_liquidity"
    /\ last.res = "InsufficientLiquidity"
    /\ ~BigIsZero(BeforeLp(last))
    /\ BigLess(BeforeLp(last), last.arg)

\* C8: add_liquidity and swap reject a zero amount with InvalidInput in every
\* state, before any liquidity check.
C8_InvalidInputFirst ==
    (last.op \in {"add_liquidity", "swap"} /\ BigIsZero(last.arg)) =>
        last.res = "InvalidInput"

\* swap(0) on an empty pool
C8_Witness ==
    /\ last.op = "swap"
    /\ BigIsZero(last.arg)
    /\ last.res = "InvalidInput"
    /\ BigIsZero(BeforeToken(last))

C9Holds(payout) ==
    /\ last.res \in {"Ok", "InsufficientLiquidity"}
    /\ last.res = "InsufficientLiquidity" <=> BigLess(BeforeToken(last), payout)
    /\ last.res = "Ok" =>
          /\ token_amount = BigSub(BeforeToken(last), payout)
          /\ st_token_amount = BigAdd(BeforeStaked(last), last.arg)

C10_NoUnderflow ==
    /\ fault # "underflow"
    /\ (last.op = "remove_liquidity" /\ last.res # "InsufficientLiquidity") =>
          /\ BigLeq(last.outToken, BeforeToken(last))
          /\ BigLeq(last.outStaked, BeforeStaked(last))
          /\ BigLeq(last.arg, BeforeLp(last))
    /\ (last.op = "swap" /\ last.res = "Ok") =>
          BigLeq(last.payout, BeforeToken(last))

\* price, liquidity target and fee bounds of a pool
Config(p) == << p[1], p[5], p[6], p[7] >>

\* C11: price, min_fee, max_fee and the liquidity target keep the values init
\* was given: no call of add_liquidity, remove_liquidity or swap, successful
\* or not, changes any of them.
C11_ConfigImmutable ==
    /\ last.op # "init" => Config(pool) = Config(last.before)
    /\ prev.op # "init" => Config(pool) = Config(prev.before)

\* a deposit, a swap and a withdrawal have all succeeded
C11_Witness ==
    /\ prev.op = "swap" /\ prev.res = "Ok"
    /\ last.op = "remove_liquidity" /\ last.res = "Ok"
    /\ Config(pool) = Config(prev.before)

\* C12: every pool init returns has min_fee <= max_fee, so that no swap
\* samples a fee rate from an empty interval.
C12_FeeBoundsOrdered ==
    /\ BigLeq(min_fee, max_fee)
    /\ fault # "empty_range"

\* C13: whether a swap fails for lack of liquidity depends on the amount and
\* the pool only: the swap that was made returned InsufficientLiquidity if and
\* only if it would have with any other fee rate of [min_fee, max_fee].
C13_FailureDeterministic ==
    (Called(last, "swap") /\ last.res \in {"Ok", "InsufficientLiquidity"}) =>
        \A fee \in FeeSamples :
            Insufficient(Payout(last.arg, fee), BeforeToken(last))
                <=> last.res = "InsufficientLiquidity"

\* the two pools run in the same build: the first did not panic on an integer
\* overflow that the second wrapped
SameBuild == ~(wrapping /\ script[Len(script)].fault \in {"overflow", "underflow"})

\* C14: a second pool created with the same price and fee bounds and another
\* liquidity target, given the same calls with the same sampled fee rates,
\* returns the same results and has the same BaseReserve, StakedReserve and
\* LpSupply after every call.
C14_TargetInert ==
    (mode = "replay" /\ SameBuild) => Entry = script[cursor]

\* both pools took a deposit and a swap that paid out
C14_Witness ==
    /\ mode = "replay"
    /\ cursor = Len(script)
    /\ prev.op = "add_liquidity" /\ prev.res = "Ok"
    /\ last.op = "swap" /\ last.res = "Ok" /\ ~BigIsZero(last.payout)
    /\ liquidity_target \in TwinTargets
    /\ Entry = script[cursor]

\* C15: in every reachable state BaseReserve <= LpSupply; hence a successful
\* add_liquidity on a pool with LpSupply > 0 mints at least the amount
\* deposited, never zero, and strictly more when the call before it was a swap
\* with a positive payout.
C15_ReserveWithinSupply ==
    /\ BigLeq(token_amount, lp_token_amount)
    /\ (Called(last, "add_liquidity") /\ last.res = "Ok"
            /\ ~BigIsZero(BeforeLp(last))) =>
          /\ BigLeq(last.arg, last.minted)
          /\ ~BigIsZero(last.minted)
          /\ (prev.op = "swap" /\ prev.res = "Ok" /\ ~BigIsZero(prev.payout)) =>
                BigLess(last.arg, last.minted)

\* C16: in every reachable state with LpSupply > 0, remove_liquidity of the
\* whole LpSupply succeeds, pays out the whole BaseReserve and the whole
\* StakedReserve, and leaves BaseReserve = StakedReserve = LpSupply = 0.
C16_FullExit ==
    (Called(last, "remove_liquidity") /\ last.arg = BeforeLp(last)) =>
        /\ last.res = "Ok"
        /\ last.arith = "none"
        /\ last.outToken = BeforeToken(last)
        /\ last.outStaked = BeforeStaked(last)
        /\ BigIsZero(token_amount)
        /\ BigIsZero(st_token_amount)
        /\ BigIsZero(lp_token_amount)

\* the reserves of a pool
Reserves(p) == << p[2], p[3], p[4] >>

\* C17: each reserve is the sum of what successful calls added to it less what
\* they deducted: a successful add_liquidity adds its amount to BaseReserve and
\* its mint to LpSupply, a successful swap deducts its payout from BaseReserve
\* and adds its amount to StakedReserve, a successful remove_liquidity deducts
\* the two amounts it returns and the LP amount burned, and no other call
\* changes a reserve.
C17_LedgerConservation ==
    /\ (last.op = "add_liquidity" /\ last.res = "Ok") =>
          Reserves(pool) = << BigAdd(BeforeToken(last), last.arg),
                              BeforeStaked(last),
                              BigAdd(BeforeLp(last), last.minted) >>
    /\ (last.op = "swap" /\ last.res = "Ok") =>
          << BigAdd(token_amount, last.payout), st_token_amount, lp_token_amount >>
              = << BeforeToken(last), BigAdd(BeforeStaked(last), last.arg),
                   BeforeLp(last) >>
    /\ (last.op = "remove_liquidity" /\ last.res = "Ok") =>
          << BigAdd(token_amount, last.outToken),
             BigAdd(st_token_amount, last.outStaked),
             BigAdd(lp_token_amount, last.arg) >> = Reserves(last.before)
    /\ (last.op # "init" /\ last.res # "Ok") => Reserves(pool) = Reserves(last.before)

\* C18: add_liquidity leaves StakedReserve as it was and never decreases
\* LpSupply; swap leaves LpSupply as it was and never decreases StakedReserve;
\* remove_liquidity never increases StakedReserve and, when it succeeds,
\* strictly decreases LpSupply.
C18_Frame ==
    /\ last.op = "add_liquidity" =>
          /\ st_token_amount = BeforeStaked(last)
          /\ BigLeq(BeforeLp(last), lp_token_amount)
    /\ last.op = "swap" =>
          /\ lp_token_amount = BeforeLp(last)
          /\ BigLeq(BeforeStaked(last), st_token_amount)
    /\ last.op = "remove_liquidity" =>
          /\ BigLeq(st_token_amount, BeforeStaked(last))
          /\ BigLeq(lp_token_amount, BeforeLp(last))
          /\ last.res = "Ok" => BigLess(lp_token_amount, BeforeLp(last))

\* C19: the calls of main - add_liquidity(100.0), swap(6.0),
\* add_liquidity(10.0), swap(30.0), remove_liquidity(109.9991) on the pool of
\* price 1.5 and fee bounds 0.9 and 9.0 - all succeed whatever fee rates are
\* sampled, and the LP amount withdrawn at the end is within the LpSupply the
\* two deposits minted.
C19_MainCompletes ==
    mode = "main" =>
        /\ last.res = "Ok"
        /\ last.arith = "none"
        /\ fault = "none"
        /\ cursor = Len(script) - 1 => BigLeq(script[Len(script)].arg, lp_token_amount)

\* main has made its last call
C19_Witness ==
    /\ mode = "main"
    /\ cursor = Len(script)
    /\ last.op = "remove_liquidity"
    /\ last.res = "Ok"
    /\ last.arg = U64(109999100)

====
